---- MODULE Spec2Model ----
(***************************************************************************)
(* Client CMS API (api/main.py): the content store (site_content table),   *)
(* the credential store (site_passwords table), the DEMO_PASSWORDS         *)
(* fallback table and the HTTP handlers that read and write them.          *)
(*                                                                         *)
(* A request is received, handled by exactly one handler in one step (the  *)
(* whole handler, its commit included) and then closed.  Strings that the  *)
(* code takes apart character by character (site ids, business names) are  *)
(* sequences of one-character strings; every other string is a string.     *)
(***************************************************************************)
EXTENDS Integers, Sequences, FiniteSets, TLC

VARIABLES
    site_content,    \* table site_content: site_id -> SiteContentDB row
    site_passwords,  \* table site_passwords: site_id -> SitePasswordDB row
    request,         \* the request being served, NoRequest when idle
    response,        \* the response of the handler, NoResponse until it ran
    served,          \* number of requests closed so far
    sessions         \* the requests served concurrently, one per db session

vars == <<site_content, site_passwords, request, response, served, sessions>>

-----------------------------------------------------------------------------
(* Bounds *)

MaxRequests == 4
MaxContentRequests == 2
MaxLen == 2

-----------------------------------------------------------------------------
(* Python values *)

\* Python's None where the code expects Optional[str]
None == "<None>"

\* `not v` for an Optional[str]: None and the empty string are both falsy
Falsy(v) == v \in {None, ""}

Field(d, k, default) == IF k \in DOMAIN d THEN d[k] ELSE default

\* str.replace(old, new) for one-character old and new
replace(s, old, new) == [i \in 1..Len(s) |-> IF s[i] = old THEN new ELSE s[i]]

LowerCase == <<"a","b","c","d","e","f","g","h","i","j","k","l","m",
               "n","o","p","q","r","s","t","u","v","w","x","y","z">>
UpperCase == <<"A","B","C","D","E","F","G","H","I","J","K","L","M",
               "N","O","P","Q","R","S","T","U","V","W","X","Y","Z">>

IsCased(c) == \E i \in 1..26 : c = LowerCase[i] \/ c = UpperCase[i]
upper(c) == IF \E i \in 1..26 : c = LowerCase[i]
            THEN UpperCase[CHOOSE i \in 1..26 : c = LowerCase[i]] ELSE c
lower(c) == IF \E i \in 1..26 : c = UpperCase[i]
            THEN LowerCase[CHOOSE i \in 1..26 : c = UpperCase[i]] ELSE c

\* str.title(): a cased character is upper-cased when it starts a word
\* (the previous character is not cased) and lower-cased otherwise
title(s) == [i \in 1..Len(s) |->
               IF IsCased(s[i])
               THEN IF i = 1 \/ ~IsCased(s[i-1]) THEN upper(s[i]) ELSE lower(s[i])
               ELSE s[i]]

-----------------------------------------------------------------------------
(* JSON text, as the document it denotes *)

JNull == [t |-> "null"]
JString(s) == [t |-> "string", v |-> s]
JBool(b) == [t |-> "bool", v |-> b]

\* json.dumps of one field of a dumped model; "active" is the only bool
json_dumps_value(k, v) ==
    IF k = "active" THEN JBool(v)
    ELSE IF v = None THEN JNull ELSE JString(v)

\* json.loads that reads null as the empty string
json_loads_value_NullAsEmpty(j) == IF j.t = "null" THEN "" ELSE j.v

json_loads_value(j) == IF j.t = "null" THEN None ELSE j.v

\* json.dumps / json.loads of a dict of scalars
json_dumps_dict(d) ==
    [t |-> "object", members |-> [k \in DOMAIN d |-> json_dumps_value(k, d[k])]]
json_loads_dict(j) == [k \in DOMAIN j.members |-> json_loads_value(j.members[k])]

\* json.dumps / json.loads of a list of dicts
json_dumps_list(l) ==
    [t |-> "array", items |-> [i \in 1..Len(l) |-> json_dumps_dict(l[i])]]
json_loads_list(j) == [i \in 1..Len(j.items) |-> json_loads_dict(j.items[i])]

\* the column defaults "{}" and "[]"
EmptyObjectJson == [t |-> "object", members |-> <<>>]
EmptyArrayJson == [t |-> "array", items |-> <<>>]

-----------------------------------------------------------------------------
(* Pydantic models: the constructors fill in the declared defaults *)

Days == {"monday", "tuesday", "wednesday", "thursday", "friday", "saturday", "sunday"}

Hours(d) == [day \in Days |-> Field(d, day, "Closed")]

Service(d) ==
    [id |-> Field(d, "id", None), title |-> d.title, description |-> d.description,
     price |-> Field(d, "price", None), icon |-> Field(d, "icon", None)]

StaffMember(d) ==
    [id |-> Field(d, "id", None), name |-> d.name, role |-> d.role,
     bio |-> Field(d, "bio", None), image |-> Field(d, "image", None)]

MenuItem(d) ==
    [id |-> Field(d, "id", None), name |-> d.name,
     description |-> Field(d, "description", None), price |-> d.price,
     category |-> Field(d, "category", None)]

Promotion(d) ==
    [id |-> Field(d, "id", None), title |-> d.title, description |-> d.description,
     active |-> Field(d, "active", TRUE)]

SiteContent(d) ==
    [site_id |-> d.site_id, business_name |-> d.business_name,
     tagline |-> Field(d, "tagline", None), phone |-> Field(d, "phone", None),
     email |-> Field(d, "email", None), address |-> Field(d, "address", None),
     hours |-> Field(d, "hours", Hours(<<>>)),
     services |-> Field(d, "services", <<>>), staff |-> Field(d, "staff", <<>>),
     menu_items |-> Field(d, "menu_items", <<>>),
     promotions |-> Field(d, "promotions", <<>>)]

\* model_dump(): the dict of all declared fields
model_dump(m) == [k \in DOMAIN m |-> m[k]]

-----------------------------------------------------------------------------
(* Configuration *)

JwCafe == <<"j","w","-","c","a","f","e">>
FritzSalon == <<"f","r","i","t","z","-","s","a","l","o","n">>
ClaterJewelers == <<"c","l","a","t","e","r","-","j","e","w","e","l","e","r","s">>

\* the fallback table, with the defaults of the three environment variables
DEMO_PASSWORDS == [s \in {ClaterJewelers, FritzSalon, JwCafe} |-> "demo123"]

\* os.getenv("ADMIN_PASSWORD", "admin123")
master_pw == "admin123"

-----------------------------------------------------------------------------
(* Requests and responses *)

NoRequest == [op |-> "none"]
NoResponse == [status_code |-> 0]
NoPath == <<>>

Request(op, site_id, x_auth_token, body) ==
    [op |-> op, site_id |-> site_id, x_auth_token |-> x_auth_token, body |-> body]

Return(body) == [status_code |-> 200, detail |-> "", body |-> body]
HTTPException(status_code, detail) ==
    [status_code |-> status_code, detail |-> detail, body |-> <<>>]

Raised(r) == r.status_code # 200

-----------------------------------------------------------------------------
(* Auth *)

\* verify_auth without the comparison against the fallback table
verify_auth_NoFallbackCheck(site_id, x_auth_token, passwords) ==
    IF Falsy(x_auth_token)
    THEN HTTPException(401, "Missing auth token")
    ELSE IF site_id \in DOMAIN passwords
         THEN IF x_auth_token # passwords[site_id].password_hash
              THEN HTTPException(401, "Invalid auth token")
              ELSE Return(TRUE)
         ELSE Return(TRUE)

\* verify_auth without the check for a missing token
verify_auth_NoMissingCheck(site_id, x_auth_token, passwords) ==
    IF site_id \in DOMAIN passwords
    THEN IF x_auth_token # passwords[site_id].password_hash
         THEN HTTPException(401, "Invalid auth token")
         ELSE Return(TRUE)
    ELSE LET expected == Field(DEMO_PASSWORDS, site_id, "")
         IN IF x_auth_token # expected
            THEN HTTPException(401, "Invalid auth token")
            ELSE Return(TRUE)

\* verify_auth that takes only None, not the empty string, for a missing token
verify_auth_OnlyNoneMissing(site_id, x_auth_token, passwords) ==
    IF x_auth_token = None
    THEN HTTPException(401, "Missing auth token")
    ELSE IF site_id \in DOMAIN passwords
         THEN IF x_auth_token # passwords[site_id].password_hash
              THEN HTTPException(401, "Invalid auth token")
              ELSE Return(TRUE)
         ELSE LET expected == Field(DEMO_PASSWORDS, site_id, "")
              IN IF x_auth_token # expected
                 THEN HTTPException(401, "Invalid auth token")
                 ELSE Return(TRUE)

verify_auth(site_id, x_auth_token, passwords) ==
    IF Falsy(x_auth_token)
    THEN HTTPException(401, "Missing auth token")
    ELSE IF site_id \in DOMAIN passwords
         THEN IF x_auth_token # passwords[site_id].password_hash
              THEN HTTPException(401, "Invalid auth token")
              ELSE Return(TRUE)
         ELSE LET expected == Field(DEMO_PASSWORDS, site_id, "")
              IN IF x_auth_token # expected
                 THEN HTTPException(401, "Invalid auth token")
                 ELSE Return(TRUE)

-----------------------------------------------------------------------------
(* Storage helpers *)

\* every JSON column is written by content_to_db or by its column default,
\* so the `or "{}"` / `or "[]"` fallbacks for NULL never apply
db_to_content(db_site) ==
    SiteContent(
      [site_id |-> db_site.site_id,
       business_name |-> db_site.business_name,
       tagline |-> db_site.tagline,
       phone |-> db_site.phone,
       email |-> db_site.email,
       address |-> db_site.address,
       hours |-> Hours(json_loads_dict(db_site.hours_json)),
       services |-> LET l == json_loads_list(db_site.services_json)
                    IN [i \in 1..Len(l) |-> Service(l[i])],
       staff |-> LET l == json_loads_list(db_site.staff_json)
                 IN [i \in 1..Len(l) |-> StaffMember(l[i])],
       menu_items |-> LET l == json_loads_list(db_site.menu_items_json)
                      IN [i \in 1..Len(l) |-> MenuItem(l[i])],
       promotions |-> LET l == json_loads_list(db_site.promotions_json)
                      IN [i \in 1..Len(l) |-> Promotion(l[i])]])

DumpAll(l) == [i \in 1..Len(l) |-> model_dump(l[i])]

content_to_db(content, db_site) ==
    [site_id |-> db_site.site_id,
     business_name |-> content.business_name,
     tagline |-> content.tagline,
     phone |-> content.phone,
     email |-> content.email,
     address |-> content.address,
     hours_json |-> json_dumps_dict(model_dump(content.hours)),
     services_json |-> json_dumps_list(DumpAll(content.services)),
     staff_json |-> json_dumps_list(DumpAll(content.staff)),
     menu_items_json |-> json_dumps_list(DumpAll(content.menu_items)),
     promotions_json |-> json_dumps_list(DumpAll(content.promotions))]

\* load_site that uses the site id itself as the default business name
load_site_NameIsSiteId(site_id, content_table) ==
    IF site_id \in DOMAIN content_table
    THEN db_to_content(content_table[site_id])
    ELSE SiteContent([site_id |-> site_id, business_name |-> site_id])

load_site(site_id, content_table) ==
    IF site_id \in DOMAIN content_table
    THEN db_to_content(content_table[site_id])
    ELSE SiteContent([site_id |-> site_id,
                      business_name |-> title(replace(site_id, "-", " "))])

\* save_site that leaves only the saved row in the table
save_site_KeepsOnlySaved(content, content_table) ==
    content.site_id :>
       content_to_db(content,
                     IF content.site_id \in DOMAIN content_table
                     THEN content_table[content.site_id]
                     ELSE [site_id |-> content.site_id])

\* the table after save_site(content, db) has committed
save_site(content, content_table) ==
    IF content.site_id \in DOMAIN content_table
    THEN [content_table EXCEPT
            ![content.site_id] = content_to_db(content, content_table[content.site_id])]
    ELSE content_table @@
         (content.site_id :> content_to_db(content, [site_id |-> content.site_id]))

\* the row INSERTed for SiteContentDB(site_id=..., business_name=...):
\* nullable columns NULL, JSON columns at their column defaults
SiteContentDB(site_id, business_name) ==
    [site_id |-> site_id, business_name |-> business_name,
     tagline |-> None, phone |-> None, email |-> None, address |-> None,
     hours_json |-> EmptyObjectJson, services_json |-> EmptyArrayJson,
     staff_json |-> EmptyArrayJson, menu_items_json |-> EmptyArrayJson,
     promotions_json |-> EmptyArrayJson]

SitePasswordDB(site_id, password_hash) ==
    [site_id |-> site_id, password_hash |-> password_hash]

\* assign_ids that numbers the elements from one
assign_ids_FromOne(items, prefix) ==
    [n \in 1..Len(items) |->
       IF Falsy(items[n].id)
       THEN [items[n] EXCEPT !.id = prefix \o "-" \o ToString(n)]
       ELSE items[n]]

\* for i, x in enumerate(items): if not x.id: x.id = f"<prefix>-{i}"
assign_ids(items, prefix) ==
    [n \in 1..Len(items) |->
       IF Falsy(items[n].id)
       THEN [items[n] EXCEPT !.id = prefix \o "-" \o ToString(n - 1)]
       ELSE items[n]]

-----------------------------------------------------------------------------
(* Public endpoints *)

Handling(op) == request.op = op /\ response = NoResponse

\* get_site_content that stores the record it returns (get-or-create)
get_site_content_SavesDefault ==
    /\ Handling("get_site_content")
    /\ response' = Return(load_site(request.site_id, site_content))
    /\ site_content' = save_site(load_site(request.site_id, site_content), site_content)
    /\ UNCHANGED <<site_passwords, request, served, sessions>>

get_site_content ==
    /\ Handling("get_site_content")
    /\ response' = Return(load_site(request.site_id, site_content))
    /\ UNCHANGED <<site_content, site_passwords, request, served, sessions>>

get_hours ==
    /\ Handling("get_hours")
    /\ response' = Return(load_site(request.site_id, site_content).hours)
    /\ UNCHANGED <<site_content, site_passwords, request, served, sessions>>

get_services ==
    /\ Handling("get_services")
    /\ response' = Return(load_site(request.site_id, site_content).services)
    /\ UNCHANGED <<site_content, site_passwords, request, served, sessions>>

get_menu ==
    /\ Handling("get_menu")
    /\ response' = Return(load_site(request.site_id, site_content).menu_items)
    /\ UNCHANGED <<site_content, site_passwords, request, served, sessions>>

\* the rows come back in no particular order: the body is their set
list_sites ==
    /\ Handling("list_sites")
    /\ response' = Return({[site_id |-> site_content[s].site_id,
                            business_name |-> site_content[s].business_name] :
                           s \in DOMAIN site_content})
    /\ UNCHANGED <<site_content, site_passwords, request, served, sessions>>

-----------------------------------------------------------------------------
(* Admin endpoints *)

\* login that tries the fallback table when the stored password differs
login_FallbackAlso ==
    /\ Handling("login")
    /\ LET auth == request.body
           expected == Field(DEMO_PASSWORDS, auth.site_id, None)
       IN IF /\ auth.site_id \in DOMAIN site_passwords
             /\ auth.password = site_passwords[auth.site_id].password_hash
          THEN response' = Return([token |-> auth.password, site_id |-> auth.site_id])
          ELSE IF Falsy(expected) \/ auth.password # expected
               THEN response' = HTTPException(401, "Invalid credentials")
               ELSE response' = Return([token |-> auth.password,
                                        site_id |-> auth.site_id])
    /\ UNCHANGED <<site_content, site_passwords, request, served, sessions>>

login ==
    /\ Handling("login")
    /\ LET auth == request.body
       IN IF auth.site_id \in DOMAIN site_passwords
          THEN IF auth.password # site_passwords[auth.site_id].password_hash
               THEN response' = HTTPException(401, "Invalid credentials")
               ELSE response' = Return([token |-> auth.password,
                                        site_id |-> auth.site_id])
          ELSE LET expected == Field(DEMO_PASSWORDS, auth.site_id, None)
               IN IF Falsy(expected) \/ auth.password # expected
                  THEN response' = HTTPException(401, "Invalid credentials")
                  ELSE response' = Return([token |-> auth.password,
                                           site_id |-> auth.site_id])
    /\ UNCHANGED <<site_content, site_passwords, request, served, sessions>>

\* create_site without the check for an existing content record
create_site_NoExistsCheck ==
    /\ Handling("create_site")
    /\ LET site_data == request.body
       IN IF request.x_auth_token # master_pw
          THEN /\ response' = HTTPException(401, "Admin auth required")
               /\ UNCHANGED <<site_content, site_passwords>>
          ELSE IF site_data.site_id \in DOMAIN site_content
                  \/ site_data.site_id \in DOMAIN site_passwords
          THEN /\ response' = HTTPException(500, "IntegrityError")
               /\ UNCHANGED <<site_content, site_passwords>>
          ELSE /\ site_content' = site_content @@
                    (site_data.site_id :>
                       SiteContentDB(site_data.site_id, site_data.business_name))
               /\ site_passwords' = site_passwords @@
                    (site_data.site_id :>
                       SitePasswordDB(site_data.site_id, site_data.password))
               /\ response' = Return([status |-> "created",
                                      site_id |-> site_data.site_id])
    /\ UNCHANGED <<request, served, sessions>>

\* create_site that replaces the password of a site that already exists
create_site_ResetsPassword ==
    /\ Handling("create_site")
    /\ LET site_data == request.body
       IN IF request.x_auth_token # master_pw
          THEN /\ response' = HTTPException(401, "Admin auth required")
               /\ UNCHANGED <<site_content, site_passwords>>
          ELSE IF site_data.site_id \in DOMAIN site_passwords
          THEN /\ response' = HTTPException(400, "Site already exists")
               /\ site_passwords' =
                    [site_passwords EXCEPT ![site_data.site_id].password_hash =
                                              site_data.password]
               /\ UNCHANGED site_content
          ELSE IF site_data.site_id \in DOMAIN site_content
          THEN /\ response' = HTTPException(400, "Site already exists")
               /\ UNCHANGED <<site_content, site_passwords>>
          ELSE /\ site_content' = site_content @@
                    (site_data.site_id :>
                       SiteContentDB(site_data.site_id, site_data.business_name))
               /\ site_passwords' = site_passwords @@
                    (site_data.site_id :>
                       SitePasswordDB(site_data.site_id, site_data.password))
               /\ response' = Return([status |-> "created",
                                      site_id |-> site_data.site_id])
    /\ UNCHANGED <<request, served, sessions>>

\* both rows are added to one session and committed together; a primary-key
\* conflict on either table fails the commit and writes nothing
create_site ==
    /\ Handling("create_site")
    /\ LET site_data == request.body
       IN IF request.x_auth_token # master_pw
          THEN /\ response' = HTTPException(401, "Admin auth required")
               /\ UNCHANGED <<site_content, site_passwords>>
          ELSE IF site_data.site_id \in DOMAIN site_content
          THEN /\ response' = HTTPException(400, "Site already exists")
               /\ UNCHANGED <<site_content, site_passwords>>
          ELSE IF site_data.site_id \in DOMAIN site_passwords
          THEN /\ response' = HTTPException(500, "IntegrityError")
               /\ UNCHANGED <<site_content, site_passwords>>
          ELSE /\ site_content' = site_content @@
                    (site_data.site_id :>
                       SiteContentDB(site_data.site_id, site_data.business_name))
               /\ site_passwords' = site_passwords @@
                    (site_data.site_id :>
                       SitePasswordDB(site_data.site_id, site_data.password))
               /\ response' = Return([status |-> "created",
                                      site_id |-> site_data.site_id])
    /\ UNCHANGED <<request, served, sessions>>

\* update_site without `content.site_id = site_id`
update_site_KeepsBodySiteId ==
    /\ Handling("update_site")
    /\ LET auth == verify_auth(request.site_id, request.x_auth_token, site_passwords)
           content == request.body
       IN IF Raised(auth)
          THEN response' = auth /\ UNCHANGED site_content
          ELSE /\ site_content' = save_site(content, site_content)
               /\ response' = Return([status |-> "saved", site_id |-> request.site_id])
    /\ UNCHANGED <<site_passwords, request, served, sessions>>

update_site ==
    /\ Handling("update_site")
    /\ LET auth == verify_auth(request.site_id, request.x_auth_token, site_passwords)
           content == [request.body EXCEPT !.site_id = request.site_id]
       IN IF Raised(auth)
          THEN response' = auth /\ UNCHANGED site_content
          ELSE /\ site_content' = save_site(content, site_content)
               /\ response' = Return([status |-> "saved", site_id |-> request.site_id])
    /\ UNCHANGED <<site_passwords, request, served, sessions>>

update_hours ==
    /\ Handling("update_hours")
    /\ LET auth == verify_auth(request.site_id, request.x_auth_token, site_passwords)
           site == load_site(request.site_id, site_content)
       IN IF Raised(auth)
          THEN response' = auth /\ UNCHANGED site_content
          ELSE /\ site_content' =
                    save_site([site EXCEPT !.hours = request.body], site_content)
               /\ response' = Return([status |-> "saved"])
    /\ UNCHANGED <<site_passwords, request, served, sessions>>

\* update_services that saves before it looks at the outcome of verify_auth
update_services_SavesFirst ==
    /\ Handling("update_services")
    /\ LET auth == verify_auth(request.site_id, request.x_auth_token, site_passwords)
           site == load_site(request.site_id, site_content)
           services == assign_ids(request.body, "svc")
       IN /\ site_content' =
               save_site([site EXCEPT !.services = services], site_content)
          /\ IF Raised(auth)
             THEN response' = auth
             ELSE response' = Return([status |-> "saved"])
    /\ UNCHANGED <<site_passwords, request, served, sessions>>

update_services ==
    /\ Handling("update_services")
    /\ LET auth == verify_auth(request.site_id, request.x_auth_token, site_passwords)
           site == load_site(request.site_id, site_content)
           services == assign_ids(request.body, "svc")
       IN IF Raised(auth)
          THEN response' = auth /\ UNCHANGED site_content
          ELSE /\ site_content' =
                    save_site([site EXCEPT !.services = services], site_content)
               /\ response' = Return([status |-> "saved"])
    /\ UNCHANGED <<site_passwords, request, served, sessions>>

\* update_menu that stores the submitted items without assigning ids
update_menu_NoBackfill ==
    /\ Handling("update_menu")
    /\ LET auth == verify_auth(request.site_id, request.x_auth_token, site_passwords)
           site == load_site(request.site_id, site_content)
       IN IF Raised(auth)
          THEN response' = auth /\ UNCHANGED site_content
          ELSE /\ site_content' =
                    save_site([site EXCEPT !.menu_items = request.body], site_content)
               /\ response' = Return([status |-> "saved"])
    /\ UNCHANGED <<site_passwords, request, served, sessions>>

update_menu ==
    /\ Handling("update_menu")
    /\ LET auth == verify_auth(request.site_id, request.x_auth_token, site_passwords)
           site == load_site(request.site_id, site_content)
           items == assign_ids(request.body, "menu")
       IN IF Raised(auth)
          THEN response' = auth /\ UNCHANGED site_content
          ELSE /\ site_content' =
                    save_site([site EXCEPT !.menu_items = items], site_content)
               /\ response' = Return([status |-> "saved"])
    /\ UNCHANGED <<site_passwords, request, served, sessions>>

\* update_staff that starts from the default record instead of the stored one
update_staff_NoLoad ==
    /\ Handling("update_staff")
    /\ LET auth == verify_auth(request.site_id, request.x_auth_token, site_passwords)
           site == load_site(request.site_id, <<>>)
           staff == assign_ids(request.body, "staff")
       IN IF Raised(auth)
          THEN response' = auth /\ UNCHANGED site_content
          ELSE /\ site_content' =
                    save_site([site EXCEPT !.staff = staff], site_content)
               /\ response' = Return([status |-> "saved"])
    /\ UNCHANGED <<site_passwords, request, served, sessions>>

update_staff ==
    /\ Handling("update_staff")
    /\ LET auth == verify_auth(request.site_id, request.x_auth_token, site_passwords)
           site == load_site(request.site_id, site_content)
           staff == assign_ids(request.body, "staff")
       IN IF Raised(auth)
          THEN response' = auth /\ UNCHANGED site_content
          ELSE /\ site_content' =
                    save_site([site EXCEPT !.staff = staff], site_content)
               /\ response' = Return([status |-> "saved"])
    /\ UNCHANGED <<site_passwords, request, served, sessions>>

update_promotions ==
    /\ Handling("update_promotions")
    /\ LET auth == verify_auth(request.site_id, request.x_auth_token, site_passwords)
           site == load_site(request.site_id, site_content)
           promos == assign_ids(request.body, "promo")
       IN IF Raised(auth)
          THEN response' = auth /\ UNCHANGED site_content
          ELSE /\ site_content' =
                    save_site([site EXCEPT !.promotions = promos], site_content)
               /\ response' = Return([status |-> "saved"])
    /\ UNCHANGED <<site_passwords, request, served, sessions>>

\* the operations by what they write
WriteOps == {"update_site", "update_hours", "update_services",
             "update_menu", "update_staff", "update_promotions"}

ListOps == {"update_services", "update_menu", "update_staff", "update_promotions"}
MergeOps == ListOps \cup {"update_hours"}

\* the field a merge operation replaces and the prefix of the ids it assigns
FieldOf(op) ==
    CASE op = "update_hours" -> "hours"
      [] op = "update_services" -> "services"
      [] op = "update_menu" -> "menu_items"
      [] op = "update_staff" -> "staff"
      [] op = "update_promotions" -> "promotions"

PrefixOf(op) ==
    CASE op = "update_services" -> "svc"
      [] op = "update_menu" -> "menu"
      [] op = "update_staff" -> "staff"
      [] op = "update_promotions" -> "promo"

\* get_db's finally: the session is closed and the response leaves
Close ==
    /\ response # NoResponse
    /\ request' = NoRequest
    /\ response' = NoResponse
    /\ served' = served + 1
    /\ UNCHANGED <<site_content, site_passwords, sessions>>

-----------------------------------------------------------------------------
(* The requests the clients send *)

NewSite == <<"n","e","w","-","s","i","t","e">>
JWCafeName == <<"J","W"," ","C","a","f","e">>
BizName == <<"B","i","z">>

\* sub-records as submitted, with the id the client chose
ServiceInput(id) ==
    Service([id |-> id, title |-> "Ring Repair", description |-> "Resize and polish"])
StaffInput(id) ==
    StaffMember([id |-> id, name |-> "Ann", role |-> "Stylist", bio |-> "Since 2010"])
MenuInput(id) ==
    MenuItem([id |-> id, name |-> "Latte", price |-> "$4"])
PromotionInput(id) ==
    Promotion([id |-> id, title |-> "Sale", description |-> "10% off", active |-> FALSE])

IdInputs == {None, "", "x1"}

SeqsUpTo(S, n) == UNION {[1..k -> S] : k \in 0..n}

ServiceLists(n) == SeqsUpTo({ServiceInput(id) : id \in IdInputs}, n)
StaffLists(n) == SeqsUpTo({StaffInput(id) : id \in IdInputs}, n)
MenuLists(n) == SeqsUpTo({MenuInput(id) : id \in IdInputs}, n)
PromotionLists(n) == SeqsUpTo({PromotionInput(id) : id \in IdInputs}, n)

OpenHours == Hours([monday |-> "9-5", sunday |-> "10-2"])
WeekendHours == Hours([saturday |-> "10-4"])

\* a full record as submitted: contact strings present or absent together,
\* the four collections empty or filled together
ContentInput(site_id, filled) ==
    IF filled
    THEN SiteContent([site_id |-> site_id, business_name |-> BizName,
                      tagline |-> "Fine things", phone |-> "555-0100",
                      email |-> "hi@example.com", address |-> "1 Main St",
                      hours |-> OpenHours,
                      services |-> <<ServiceInput("x1"), ServiceInput(None)>>,
                      staff |-> <<StaffInput(None)>>,
                      menu_items |-> <<MenuInput("x1")>>,
                      promotions |-> <<PromotionInput(None), PromotionInput("x1")>>])
    ELSE SiteContent([site_id |-> site_id, business_name |-> BizName])

ReadRequests(Sites) ==
    {Request(op, s, None, <<>>) :
       op \in {"get_site_content", "get_hours", "get_services", "get_menu"},
       s \in Sites}
    \cup {Request("list_sites", NoPath, None, <<>>)}

LoginRequests(Sites, Passwords) ==
    {Request("login", NoPath, None, [site_id |-> s, password |-> p]) :
       s \in Sites, p \in Passwords}

CreateRequests(Sites, Toks, Names, Passwords) ==
    {Request("create_site", NoPath, t,
             [site_id |-> s, business_name |-> n, password |-> p]) :
       s \in Sites, t \in Toks, n \in Names, p \in Passwords}

WriteRequests(op, Sites, Toks, Bodies) ==
    {Request(op, s, t, b) : s \in Sites, t \in Toks, b \in Bodies}

\* two sites (one with a fallback credential, one without), every kind of
\* token, small bodies
SiteIds == {JwCafe, NewSite}
Tokens == {None, "", "demo123", "secret1", "admin123"}

Requests ==
    ReadRequests(SiteIds)
    \cup LoginRequests(SiteIds, {"", "demo123", "secret1"})
    \cup CreateRequests(SiteIds, Tokens, {JWCafeName}, {"", "secret1"})
    \cup WriteRequests("update_site", SiteIds, Tokens,
                       {ContentInput(s, f) : s \in SiteIds, f \in BOOLEAN})
    \cup WriteRequests("update_hours", SiteIds, Tokens, {WeekendHours})
    \cup WriteRequests("update_services", SiteIds, Tokens, {<<ServiceInput(None)>>})
    \cup WriteRequests("update_menu", SiteIds, Tokens, {<<MenuInput(None)>>})
    \cup WriteRequests("update_staff", SiteIds, Tokens, {<<StaffInput(None)>>})
    \cup WriteRequests("update_promotions", SiteIds, Tokens, {<<PromotionInput(None)>>})

\* one site, valid tokens only, every list up to MaxLen
ContentTokens == {"demo123", "secret1"}

ContentRequests ==
    ReadRequests({JwCafe})
    \cup LoginRequests({JwCafe}, {"demo123"})
    \cup CreateRequests({JwCafe}, {"admin123"}, {JWCafeName}, {"secret1"})
    \cup WriteRequests("update_site", {JwCafe}, ContentTokens,
                       {ContentInput(JwCafe, f) : f \in BOOLEAN})
    \cup WriteRequests("update_hours", {JwCafe}, ContentTokens,
                       {OpenHours, WeekendHours})
    \cup WriteRequests("update_services", {JwCafe}, ContentTokens, ServiceLists(MaxLen))
    \cup WriteRequests("update_menu", {JwCafe}, ContentTokens, MenuLists(MaxLen))
    \cup WriteRequests("update_staff", {JwCafe}, ContentTokens, StaffLists(MaxLen))
    \cup WriteRequests("update_promotions", {JwCafe}, ContentTokens,
                       PromotionLists(MaxLen))

Receive ==
    /\ request = NoRequest
    /\ served < MaxRequests
    /\ request' \in Requests
    /\ UNCHANGED <<site_content, site_passwords, response, served, sessions>>

ReceiveContent ==
    /\ request = NoRequest
    /\ served < MaxContentRequests
    /\ request' \in ContentRequests
    /\ UNCHANGED <<site_content, site_passwords, response, served, sessions>>

-----------------------------------------------------------------------------
(* The write paths, statement by statement, in concurrent db sessions *)

\* Each request has its own session (get_db).  A handler's queries and its
\* commit are separate statements, and other sessions may commit in between.
\* A row a session has loaded stays in its identity map: a later query of the
\* same session returns that object with the attributes it was loaded with.
\* The commit writes an UPDATE of the columns whose value the session changed,
\* or an INSERT, which a row with that primary key makes fail.

MaxConcRequests == 3

Sessions == {"a", "b"}

NoRow == [site_id |-> <<>>]

IdleSession ==
    [pc |-> "idle", request |-> NoRequest, content |-> <<>>,
     db_site |-> NoRow, response |-> NoResponse]

\* the requests of the concurrent clients: one site, accepted tokens
ConcRequests ==
    {Request("create_site", NoPath, master_pw,
             [site_id |-> JwCafe, business_name |-> JWCafeName, password |-> "secret1"]),
     Request("create_site", NoPath, master_pw,
             [site_id |-> JwCafe, business_name |-> BizName, password |-> "demo123"])}
    \cup WriteRequests("update_site", {JwCafe}, ContentTokens, {ContentInput(JwCafe, TRUE)})
    \cup WriteRequests("update_hours", {JwCafe}, ContentTokens, {OpenHours})
    \cup WriteRequests("update_services", {JwCafe}, ContentTokens, {<<ServiceInput(None)>>})
    \cup WriteRequests("update_staff", {JwCafe}, ContentTokens, {<<StaffInput(None)>>})

InFlight == {k \in Sessions : sessions[k].pc # "idle"}

Begin(k) ==
    /\ sessions[k].pc = "idle"
    /\ served + Cardinality(InFlight) < MaxConcRequests
    /\ \E req \in ConcRequests :
         sessions' = [sessions EXCEPT
            ![k] = [IdleSession EXCEPT
                      !.request = req,
                      !.pc = IF req.op = "create_site" THEN "check" ELSE "auth"]]
    /\ UNCHANGED <<site_content, site_passwords, request, response, served>>

\* verify_auth(site_id, x_auth_token, db), the first statement of a write
VerifyAuth(k) ==
    /\ sessions[k].pc = "auth"
    /\ LET s == sessions[k]
           auth == verify_auth(s.request.site_id, s.request.x_auth_token,
                               site_passwords)
       IN sessions' = [sessions EXCEPT
            ![k] = IF Raised(auth)
                   THEN [s EXCEPT !.pc = "done", !.response = auth]
                   ELSE IF s.request.op = "update_site"
                   THEN [s EXCEPT !.pc = "query",
                                  !.content = [s.request.body EXCEPT
                                                 !.site_id = s.request.site_id]]
                   ELSE [s EXCEPT !.pc = "load"]]
    /\ UNCHANGED <<site_content, site_passwords, request, response, served>>

\* site = load_site(site_id, db) and the assignment of the merged field
LoadSite(k) ==
    /\ sessions[k].pc = "load"
    /\ LET s == sessions[k]
           id == s.request.site_id
           site == load_site(id, site_content)
           value == IF s.request.op = "update_hours"
                    THEN s.request.body
                    ELSE assign_ids(s.request.body, PrefixOf(s.request.op))
       IN sessions' = [sessions EXCEPT
            ![k] = [s EXCEPT
                      !.pc = "query",
                      !.db_site = IF id \in DOMAIN site_content
                                  THEN site_content[id] ELSE NoRow,
                      !.content = [site EXCEPT ![FieldOf(s.request.op)] = value]]]
    /\ UNCHANGED <<site_content, site_passwords, request, response, served>>

\* the query of save_site
SaveQuery(k) ==
    /\ sessions[k].pc = "query"
    /\ LET s == sessions[k]
           id == s.request.site_id
       IN sessions' = [sessions EXCEPT
            ![k] = [s EXCEPT
                      !.pc = "commit",
                      !.db_site = IF s.db_site # NoRow THEN s.db_site
                                  ELSE IF id \in DOMAIN site_content
                                  THEN site_content[id] ELSE NoRow]]
    /\ UNCHANGED <<site_content, site_passwords, request, response, served>>

\* a commit under optimistic concurrency control: it fails when the row is
\* no longer the one the session loaded
Commit_VersionChecked(k) ==
    /\ sessions[k].pc = "commit"
    /\ sessions[k].request.op \in WriteOps
    /\ LET s == sessions[k]
           id == s.request.site_id
           saved == IF s.request.op = "update_site"
                    THEN Return([status |-> "saved", site_id |-> id])
                    ELSE Return([status |-> "saved"])
           stored == IF id \in DOMAIN site_content THEN site_content[id] ELSE NoRow
       IN IF stored # s.db_site
          THEN /\ sessions' = [sessions EXCEPT
                    ![k] = [s EXCEPT !.pc = "done",
                                     !.response = HTTPException(409, "StaleDataError")]]
               /\ UNCHANGED site_content
          ELSE /\ site_content' =
                    IF s.db_site = NoRow
                    THEN site_content @@ (id :> content_to_db(s.content, [site_id |-> id]))
                    ELSE [site_content EXCEPT ![id] = content_to_db(s.content, s.db_site)]
               /\ sessions' = [sessions EXCEPT
                    ![k] = [s EXCEPT !.pc = "done", !.response = saved]]
    /\ UNCHANGED <<site_passwords, request, response, served>>

\* content_to_db and db.commit() of save_site
Commit(k) ==
    /\ sessions[k].pc = "commit"
    /\ sessions[k].request.op \in WriteOps
    /\ LET s == sessions[k]
           id == s.request.site_id
           saved == IF s.request.op = "update_site"
                    THEN Return([status |-> "saved", site_id |-> id])
                    ELSE Return([status |-> "saved"])
       IN IF s.db_site = NoRow
          THEN IF id \in DOMAIN site_content
               THEN /\ sessions' = [sessions EXCEPT
                         ![k] = [s EXCEPT !.pc = "done",
                                          !.response = HTTPException(500, "IntegrityError")]]
                    /\ UNCHANGED site_content
               ELSE /\ site_content' = site_content @@
                         (id :> content_to_db(s.content, [site_id |-> id]))
                    /\ sessions' = [sessions EXCEPT
                         ![k] = [s EXCEPT !.pc = "done", !.response = saved]]
          ELSE LET new == content_to_db(s.content, s.db_site)
                   changed == {c \in DOMAIN new : new[c] # s.db_site[c]}
               IN /\ site_content' = [site_content EXCEPT
                       ![id] = [c \in DOMAIN new |->
                                  IF c \in changed THEN new[c] ELSE @[c]]]
                  /\ sessions' = [sessions EXCEPT
                       ![k] = [s EXCEPT !.pc = "done", !.response = saved]]
    /\ UNCHANGED <<site_passwords, request, response, served>>

\* create_site that commits the password row as soon as the checks have
\* passed, ahead of the content row
CreateCheck_CommitsPassword(k) ==
    /\ sessions[k].pc = "check"
    /\ LET s == sessions[k]
           site_data == s.request.body
       IN IF s.request.x_auth_token # master_pw
          THEN /\ sessions' = [sessions EXCEPT
                    ![k] = [s EXCEPT !.pc = "done",
                                     !.response = HTTPException(401, "Admin auth required")]]
               /\ UNCHANGED site_passwords
          ELSE IF site_data.site_id \in DOMAIN site_content
                  \/ site_data.site_id \in DOMAIN site_passwords
          THEN /\ sessions' = [sessions EXCEPT
                    ![k] = [s EXCEPT !.pc = "done",
                                     !.response = HTTPException(400, "Site already exists")]]
               /\ UNCHANGED site_passwords
          ELSE /\ sessions' = [sessions EXCEPT ![k] = [s EXCEPT !.pc = "commit"]]
               /\ site_passwords' = site_passwords @@
                    (site_data.site_id :>
                       SitePasswordDB(site_data.site_id, site_data.password))
    /\ UNCHANGED <<site_content, request, response, served>>

\* create_site up to the query for an existing site
CreateCheck(k) ==
    /\ sessions[k].pc = "check"
    /\ LET s == sessions[k]
           site_data == s.request.body
       IN sessions' = [sessions EXCEPT
            ![k] = IF s.request.x_auth_token # master_pw
                   THEN [s EXCEPT !.pc = "done",
                                  !.response = HTTPException(401, "Admin auth required")]
                   ELSE IF site_data.site_id \in DOMAIN site_content
                   THEN [s EXCEPT !.pc = "done",
                                  !.response = HTTPException(400, "Site already exists")]
                   ELSE [s EXCEPT !.pc = "commit"]]
    /\ UNCHANGED <<site_content, site_passwords, request, response, served>>

\* a commit of create_site that overwrites the rows another call has stored
CreateCommit_Upserts(k) ==
    /\ sessions[k].pc = "commit"
    /\ sessions[k].request.op = "create_site"
    /\ LET s == sessions[k]
           site_data == s.request.body
           id == site_data.site_id
           content_row == SiteContentDB(id, site_data.business_name)
           password_row == SitePasswordDB(id, site_data.password)
       IN /\ site_content' = IF id \in DOMAIN site_content
                             THEN [site_content EXCEPT ![id] = content_row]
                             ELSE site_content @@ (id :> content_row)
          /\ site_passwords' = IF id \in DOMAIN site_passwords
                               THEN [site_passwords EXCEPT ![id] = password_row]
                               ELSE site_passwords @@ (id :> password_row)
          /\ sessions' = [sessions EXCEPT
               ![k] = [s EXCEPT !.pc = "done",
                                !.response = Return([status |-> "created",
                                                     site_id |-> id])]]
    /\ UNCHANGED <<request, response, served>>

\* db.commit() of create_site: both INSERTs in one transaction
CreateCommit(k) ==
    /\ sessions[k].pc = "commit"
    /\ sessions[k].request.op = "create_site"
    /\ LET s == sessions[k]
           site_data == s.request.body
       IN IF \/ site_data.site_id \in DOMAIN site_content
             \/ site_data.site_id \in DOMAIN site_passwords
          THEN /\ sessions' = [sessions EXCEPT
                    ![k] = [s EXCEPT !.pc = "done",
                                     !.response = HTTPException(500, "IntegrityError")]]
               /\ UNCHANGED <<site_content, site_passwords>>
          ELSE /\ site_content' = site_content @@
                    (site_data.site_id :>
                       SiteContentDB(site_data.site_id, site_data.business_name))
               /\ site_passwords' = site_passwords @@
                    (site_data.site_id :>
                       SitePasswordDB(site_data.site_id, site_data.password))
               /\ sessions' = [sessions EXCEPT
                    ![k] = [s EXCEPT !.pc = "done",
                                     !.response = Return([status |-> "created",
                                                          site_id |-> site_data.site_id])]]
    /\ UNCHANGED <<request, response, served>>

\* get_db's finally for a concurrent session
End(k) ==
    /\ sessions[k].pc = "done"
    /\ sessions' = [sessions EXCEPT ![k] = IdleSession]
    /\ served' = served + 1
    /\ UNCHANGED <<site_content, site_passwords, request, response>>

-----------------------------------------------------------------------------
(* Specifications *)

\* after create_all on an empty database
Init ==
    /\ site_content = <<>>
    /\ site_passwords = <<>>
    /\ request = NoRequest
    /\ response = NoResponse
    /\ served = 0
    /\ sessions = [k \in Sessions |-> IdleSession]

Next ==
    \/ Receive
    \/ get_site_content \/ get_hours \/ get_services \/ get_menu \/ list_sites
    \/ login \/ create_site
    \/ update_site \/ update_hours \/ update_services
    \/ update_menu \/ update_staff \/ update_promotions
    \/ Close

Spec == Init /\ [][Next]_vars

ContentNext ==
    \/ ReceiveContent
    \/ get_site_content \/ get_hours \/ get_services \/ get_menu \/ list_sites
    \/ login \/ create_site
    \/ update_site \/ update_hours \/ update_services
    \/ update_menu \/ update_staff \/ update_promotions
    \/ Close

ContentSpec == Init /\ [][ContentNext]_vars

ConcNext ==
    \E k \in Sessions :
       \/ Begin(k)
       \/ VerifyAuth(k) \/ LoadSite(k) \/ SaveQuery(k) \/ Commit(k)
       \/ CreateCheck(k) \/ CreateCommit(k)
       \/ End(k)

ConcSpec == Init /\ [][ConcNext]_vars

-----------------------------------------------------------------------------
(* Vocabulary of the properties *)

\* the credential verify_auth compares the token against: the durable row,
\* else the fallback table, else the empty string
ResolveCredential(site_id) ==
    IF site_id \in DOMAIN site_passwords
    THEN site_passwords[site_id].password_hash
    ELSE Field(DEMO_PASSWORDS, site_id, "")

\* the error taxonomy, by status code and detail
Succeeded(r) == r.status_code = 200
Unauthorized(r) == r.status_code = 401 /\ r.detail = "Missing auth token"
InvalidCredential(r) ==
    r.status_code = 401 /\ r.detail \in {"Invalid auth token", "Invalid credentials"}
Forbidden(r) == r.status_code = 401 /\ r.detail = "Admin auth required"
AlreadyExists(r) == r.status_code = 400 /\ r.detail = "Site already exists"

\* the step in which a handler serves `request`
Handled == response = NoResponse /\ response' # NoResponse

\* the site a request is addressed to
Addressed(req) ==
    IF req.op \in {"login", "create_site"} THEN req.body.site_id ELSE req.site_id

StoredSites == DOMAIN site_content \cup DOMAIN site_passwords
KnownSites == SiteIds \cup StoredSites

ContentChanged(s) ==
    \/ (s \in DOMAIN site_content) # (s \in DOMAIN site_content')
    \/ s \in DOMAIN site_content /\ site_content'[s] # site_content[s]

CredentialChanged(s) ==
    \/ (s \in DOMAIN site_passwords) # (s \in DOMAIN site_passwords')
    \/ s \in DOMAIN site_passwords /\ site_passwords'[s] # site_passwords[s]

-----------------------------------------------------------------------------
(* C1 *)

\* C1: a step changes or creates the stored content record of site s only if
\* it serves a write operation addressed to s whose token is non-empty and
\* equal to the credential resolved for s, or a create_site for s whose token
\* equals the admin credential.
C1_AuthGatedMutation ==
    [][\A s \in KnownSites \cup DOMAIN site_content' :
         ContentChanged(s) =>
           /\ Handled
           /\ \/ /\ request.op \in WriteOps
                 /\ request.site_id = s
                 /\ request.x_auth_token \notin {None, ""}
                 /\ request.x_auth_token = ResolveCredential(s)
              \/ /\ request.op = "create_site"
                 /\ request.body.site_id = s
                 /\ request.x_auth_token = master_pw]_vars

\* a write authenticated against the fallback table has created a record
C1_Witness ==
    /\ request.op \in WriteOps
    /\ Succeeded(response)
    /\ request.site_id \in DOMAIN site_content
    /\ request.site_id \notin DOMAIN site_passwords
    /\ request.x_auth_token = DEMO_PASSWORDS[request.site_id]

-----------------------------------------------------------------------------
(* C2 *)

\* C2: serving a request addressed to site A leaves the content record and the
\* credential of every other site unchanged, also when a full-record replace
\* for A submits a record with site_id = B; every stored record and the record
\* loaded from it carry the site_id they are stored under.
C2_PerSiteIsolation ==
    [][/\ \A b \in KnownSites \cup DOMAIN site_content' \cup DOMAIN site_passwords' :
            (ContentChanged(b) \/ CredentialChanged(b)) =>
               Handled /\ b = Addressed(request)
       /\ \A s \in DOMAIN site_content' :
            /\ site_content'[s].site_id = s
            /\ load_site(s, site_content').site_id = s]_vars

\* a full replace for A that submitted site_id = B succeeded while B is stored
C2_Witness ==
    /\ request.op = "update_site"
    /\ Succeeded(response)
    /\ request.body.site_id # request.site_id
    /\ request.body.site_id \in DOMAIN site_content
    /\ request.site_id \in DOMAIN site_content

-----------------------------------------------------------------------------
(* C3 *)

\* C3: for every site and token, verify_auth fails with Unauthorized when the
\* token is absent or empty (whatever the resolved credential is), fails with
\* InvalidCredential when the token is non-empty and differs from the resolved
\* credential, and succeeds when the token is non-empty and equals it; the
\* write handlers answer accordingly.
C3_Authenticate ==
    /\ \A s \in KnownSites, t \in Tokens :
         LET r == verify_auth(s, t, site_passwords)
             c == ResolveCredential(s)
         IN /\ t \in {None, ""} => Unauthorized(r)
            /\ t \notin {None, ""} /\ t # c => InvalidCredential(r)
            /\ t \notin {None, ""} /\ t = c => r = Return(TRUE)
    /\ request.op \in WriteOps /\ response # NoResponse =>
         LET t == request.x_auth_token
             c == ResolveCredential(request.site_id)
         IN /\ t \in {None, ""} => Unauthorized(response)
            /\ t \notin {None, ""} /\ t # c => InvalidCredential(response)
            /\ t \notin {None, ""} /\ t = c => Succeeded(response)

\* a write with the durable credential of a created site was accepted
C3_Witness ==
    /\ request.op \in WriteOps
    /\ Succeeded(response)
    /\ request.site_id \in DOMAIN site_passwords
    /\ request.x_auth_token = site_passwords[request.site_id].password_hash

-----------------------------------------------------------------------------
(* C4 *)

\* C4: login succeeds exactly when verify_auth succeeds for the same site and
\* the password as token; on success the returned token is the password,
\* otherwise login fails with InvalidCredential.
C4_LoginSameAsAuthenticate ==
    request.op = "login" /\ response # NoResponse =>
       LET auth == request.body
       IN /\ Succeeded(response) <=>
               ~Raised(verify_auth(auth.site_id, auth.password, site_passwords))
          /\ Succeeded(response) => response.body.token = auth.password
          /\ ~Succeeded(response) => InvalidCredential(response)

-----------------------------------------------------------------------------
(* C5 *)

\* C5: a create_site with the admin token for a site that has a content record
\* (created by create_site or by an authenticated write) fails with
\* AlreadyExists; a create_site that succeeds stores its password as the
\* site's credential, and from then on that row never changes, so the resolved
\* credential stays the password of the successful call.
C5_CreateSiteExclusive ==
    [][/\ (Handled /\ request.op = "create_site" /\ request.x_auth_token = master_pw) =>
             LET id == request.body.site_id
             IN IF id \in DOMAIN site_content
                THEN AlreadyExists(response')
                ELSE /\ Succeeded(response')
                     /\ id \in DOMAIN site_content'
                     /\ ResolveCredential(id)' = request.body.password
       /\ \A s \in DOMAIN site_passwords :
             /\ s \in DOMAIN site_content
             /\ s \in DOMAIN site_passwords'
             /\ ResolveCredential(s)' = site_passwords[s].password_hash]_vars

\* a second create_site for a created site, with another password, was refused
C5_Witness ==
    /\ request.op = "create_site"
    /\ AlreadyExists(response)
    /\ request.body.site_id \in DOMAIN site_passwords
    /\ request.body.password # site_passwords[request.body.site_id].password_hash

-----------------------------------------------------------------------------
(* C6 *)

\* the step in which session k commits a create_site successfully
Created(k) ==
    /\ sessions[k].request.op = "create_site"
    /\ sessions[k].pc = "commit"
    /\ Succeeded(sessions'[k].response)

\* C6: the step in which a create_site succeeds stores, for a site that had
\* neither, both a content record with the submitted business name and
\* defaults elsewhere and a credential equal to the submitted password; in
\* every state reached while sessions interleave, a durable credential exists
\* only for sites that have a content record.
C6_CreateSiteAtomicMinimal ==
    [][/\ DOMAIN site_passwords' \subseteq DOMAIN site_content'
       /\ \A k \in Sessions :
            Created(k) =>
              LET id == sessions[k].request.body.site_id
                  site == load_site(id, site_content')
              IN /\ id \notin DOMAIN site_content
                 /\ id \notin DOMAIN site_passwords
                 /\ id \in DOMAIN site_content'
                 /\ id \in DOMAIN site_passwords'
                 /\ site_passwords'[id].password_hash = sessions[k].request.body.password
                 /\ site.site_id = id
                 /\ site.business_name = sessions[k].request.body.business_name
                 /\ DOMAIN site.hours = Days
                 /\ \A day \in Days : site.hours[day] = "Closed"
                 /\ \A f \in {"tagline", "phone", "email", "address"} : site[f] = None
                 /\ \A f \in {"services", "staff", "menu_items", "promotions"} :
                      site[f] = <<>>]_vars

\* a create_site has succeeded while another session, which found no row for
\* the same site, is about to commit
C6_Witness ==
    \E k \in Sessions, j \in Sessions :
       /\ k # j
       /\ sessions[k].request.op = "create_site"
       /\ Succeeded(sessions[k].response)
       /\ sessions[j].pc = "commit"
       /\ sessions[j].db_site = NoRow
       /\ Addressed(sessions[j].request) = Addressed(sessions[k].request)

-----------------------------------------------------------------------------
(* C7 *)

\* C7 as stated: once the credential resolved for a site is a non-empty value,
\* it is that value in every later state.
C7_ResolvedCredentialNeverChanges ==
    [][\A s \in KnownSites :
         ResolveCredential(s) # "" => ResolveCredential(s)' = ResolveCredential(s)]_vars

\* C7 amended: a durable credential, once stored, is never changed or removed;
\* the credential resolved for a site changes only in a successful create_site
\* for that site, which had no content record and no durable credential, and
\* it changes from the fallback-table entry (or the empty credential) to the
\* password of that call.
C7_DurableCredentialNeverChanges ==
    [][\A s \in KnownSites \cup DOMAIN site_passwords' :
         /\ s \in DOMAIN site_passwords =>
              s \in DOMAIN site_passwords' /\ site_passwords'[s] = site_passwords[s]
         /\ ResolveCredential(s)' # ResolveCredential(s) =>
              /\ Handled
              /\ request.op = "create_site"
              /\ request.body.site_id = s
              /\ request.x_auth_token = master_pw
              /\ Succeeded(response')
              /\ s \notin DOMAIN site_content
              /\ s \notin DOMAIN site_passwords
              /\ ResolveCredential(s) = Field(DEMO_PASSWORDS, s, "")
              /\ ResolveCredential(s)' = request.body.password]_vars

\* create_site succeeded for a site of the fallback table with another password
C7_Witness ==
    /\ request.op = "create_site"
    /\ Succeeded(response)
    /\ request.body.site_id \in DOMAIN DEMO_PASSWORDS
    /\ ResolveCredential(request.body.site_id) # DEMO_PASSWORDS[request.body.site_id]

-----------------------------------------------------------------------------
(* C8 *)

\* C8: a write that fails with Unauthorized or InvalidCredential and a
\* create_site that fails with Forbidden or AlreadyExists leave every content
\* record and every credential as they were; create_site with a wrong admin
\* token fails with Forbidden whether or not the site exists.
C8_FailedOperationsChangeNothing ==
    [][Handled =>
         /\ (\/ /\ request.op \in WriteOps
                /\ Unauthorized(response') \/ InvalidCredential(response')
             \/ /\ request.op = "create_site"
                /\ Forbidden(response') \/ AlreadyExists(response')) =>
               /\ site_content' = site_content
               /\ site_passwords' = site_passwords
         /\ (request.op = "create_site" /\ request.x_auth_token # master_pw) =>
               Forbidden(response')]_vars

\* a write to a site that has a record and a credential was refused
C8_Witness ==
    /\ request.op \in WriteOps
    /\ InvalidCredential(response)
    /\ request.site_id \in DOMAIN site_content
    /\ request.site_id \in DOMAIN site_passwords

-----------------------------------------------------------------------------
(* C9 *)

\* C9: a successful merge of field f into a site that has a stored record
\* changes nothing of what load_site returns for the site but field f; a
\* merge of hours makes the submitted hours the loaded ones.
C9_MergeReplacesOneField ==
    [][(/\ Handled
        /\ request.op \in MergeOps
        /\ Succeeded(response')
        /\ request.site_id \in DOMAIN site_content) =>
          LET before == load_site(request.site_id, site_content)
              after == load_site(request.site_id, site_content')
          IN /\ DOMAIN after = DOMAIN before
             /\ \A k \in DOMAIN before \ {FieldOf(request.op)} : after[k] = before[k]
             /\ request.op = "update_hours" => after.hours = request.body]_vars

\* staff was merged into a record with contact strings, and with services
\* whose ids an earlier merge had assigned
C9_Witness ==
    /\ request.op = "update_staff"
    /\ Succeeded(response)
    /\ request.body # <<>>
    /\ request.site_id \in DOMAIN site_content
    /\ LET site == load_site(request.site_id, site_content)
       IN /\ site.tagline # None
          /\ site.business_name = BizName
          /\ \E i \in DOMAIN site.services : site.services[i].id = "svc-0"
          /\ site.staff = assign_ids(request.body, "staff")

-----------------------------------------------------------------------------
(* C10 *)

\* the list a merge must have stored for the submitted one, where Missing
\* are the id values that count as no id
BackFilled(submitted, prefix, Missing) ==
    [i \in 1..Len(submitted) |->
       [submitted[i] EXCEPT
          !.id = IF submitted[i].id \in Missing
                 THEN prefix \o "-" \o ToString(i - 1)
                 ELSE submitted[i].id]]

\* C10 as stated: after a successful merge of a list field the stored list is
\* the submitted one, in order and length, where every element submitted
\* without an id has id "<prefix>-<i>", i its zero-based position, and every
\* element submitted with an id keeps it.
C10_BackfillOnlyWhenIdAbsent ==
    request.op \in ListOps /\ Succeeded(response) =>
       load_site(request.site_id, site_content)[FieldOf(request.op)] =
          BackFilled(request.body, PrefixOf(request.op), {None})

\* C10 amended: as stated, but an id that is the empty string counts as no id:
\* elements submitted without an id or with an empty id get "<prefix>-<i>",
\* elements submitted with a non-empty id keep it.
C10_BackfillWhenIdAbsentOrEmpty ==
    request.op \in ListOps /\ Succeeded(response) =>
       load_site(request.site_id, site_content)[FieldOf(request.op)] =
          BackFilled(request.body, PrefixOf(request.op), {None, ""})

\* promotions were merged from a list whose first element had an id and whose
\* second had none
C10_Witness ==
    /\ request.op = "update_promotions"
    /\ Succeeded(response)
    /\ Len(request.body) = 2
    /\ request.body[1].id = "x1"
    /\ request.body[2].id = None
    /\ LET promotions == load_site(request.site_id, site_content).promotions
       IN promotions[1].id = "x1" /\ promotions[2].id = "promo-1"

-----------------------------------------------------------------------------
(* C11 *)

\* C11: the step in which a full-record replace for site id succeeds leaves a
\* store from which load_site(id) is the submitted record in every field
\* (business name, optional strings, hours, the four collections with their
\* elements, order and ids, None ids included) with site_id = id; and
\* get_site_content answers with what load_site returns for the store.
C11_SaveFullLoadRoundTrip ==
    [][/\ (Handled /\ request.op = "update_site" /\ Succeeded(response')) =>
             load_site(request.site_id, site_content') =
                [request.body EXCEPT !.site_id = request.site_id]
       /\ (Handled /\ request.op = "get_site_content") =>
             response' = Return(load_site(request.site_id, site_content))]_vars

\* a full replace over a stored record succeeded with a body that names
\* another site and holds elements without an id, and they load without one
C11_Witness ==
    /\ request.op = "update_site"
    /\ Succeeded(response)
    /\ request.body.site_id # request.site_id
    /\ request.site_id \in DOMAIN site_passwords
    /\ Len(request.body.services) = 2
    /\ request.body.services[2].id = None
    /\ LET site == load_site(request.site_id, site_content)
       IN /\ site.services[1].id = "x1"
          /\ site.services[2].id = None
          /\ site.hours = OpenHours
          /\ site.promotions[1].active = FALSE

-----------------------------------------------------------------------------
(* C12 *)

\* the business names load_site derives for the sites without a record
JwCafeDefaultName == <<"J","w"," ","C","a","f","e">>
NewSiteDefaultName == <<"N","e","w"," ","S","i","t","e">>

DefaultName(s) == IF s = JwCafe THEN JwCafeDefaultName ELSE NewSiteDefaultName

\* C12: in every reachable state, for every site without a stored record,
\* load_site returns the record with that site_id, the business name derived
\* from the id (dashes to spaces, title-cased), seven hours "Closed", the
\* optional strings None and the four collections empty; and the read
\* handlers never raise: they answer 200 with that record or its part.
C12_DefaultOnRead ==
    /\ \A s \in SiteIds \ DOMAIN site_content :
         LET site == load_site(s, site_content)
         IN /\ site.site_id = s
            /\ site.business_name = DefaultName(s)
            /\ DOMAIN site.hours = Days
            /\ \A day \in Days : site.hours[day] = "Closed"
            /\ \A f \in {"tagline", "phone", "email", "address"} : site[f] = None
            /\ \A f \in {"services", "staff", "menu_items", "promotions"} :
                 site[f] = <<>>
    /\ (/\ request.op \in {"get_site_content", "get_hours", "get_services", "get_menu"}
        /\ response # NoResponse) =>
          /\ Succeeded(response)
          /\ request.site_id \notin DOMAIN site_content =>
               response.body =
                  CASE request.op = "get_site_content" ->
                         SiteContent([site_id |-> request.site_id,
                                      business_name |-> DefaultName(request.site_id)])
                    [] request.op = "get_hours" -> Hours(<<>>)
                    [] OTHER -> <<>>

\* the full record of a site without a record was read while the other site
\* has a stored record
C12_Witness ==
    /\ request.op = "get_site_content"
    /\ Succeeded(response)
    /\ request.site_id = NewSite
    /\ NewSite \notin DOMAIN site_content
    /\ JwCafe \in DOMAIN site_content
    /\ response.body.business_name = NewSiteDefaultName
    /\ response.body.hours["monday"] = "Closed"

-----------------------------------------------------------------------------
(* C13 *)

ReadOps == {"get_site_content", "get_hours", "get_services", "get_menu", "list_sites"}

\* C13: the step in which a read (full record, hours, services, menu, the
\* listing) or a login is served, and the step of a write that verify_auth
\* refuses, leave both tables unchanged; the listing is the set of stored
\* records; so a site that was only read is not listed, and a create_site for
\* a site without a record, with the admin token, succeeds.
C13_ReadsChangeNothing ==
    [][/\ (Handled /\ request.op \in ReadOps \cup {"login"}) =>
             /\ site_content' = site_content
             /\ site_passwords' = site_passwords
       /\ (Handled /\ request.op \in WriteOps
           /\ Raised(verify_auth(request.site_id, request.x_auth_token, site_passwords))) =>
             /\ site_content' = site_content
             /\ site_passwords' = site_passwords
       /\ (Handled /\ request.op = "list_sites") =>
             {r.site_id : r \in response'.body} = DOMAIN site_content
       /\ (/\ Handled
           /\ request.op = "create_site"
           /\ request.x_auth_token = master_pw
           /\ request.body.site_id \notin DOMAIN site_content) =>
             Succeeded(response')]_vars

\* a site without a record was read, and it has no record and no credential
\* afterwards while the other site has both
C13_Witness ==
    /\ request.op = "get_site_content"
    /\ Succeeded(response)
    /\ request.site_id \notin DOMAIN site_content
    /\ request.site_id \notin DOMAIN site_passwords
    /\ DOMAIN site_content # {}
    /\ DOMAIN site_passwords # {}

-----------------------------------------------------------------------------
(* C14 *)

\* C14: for a site with a durable credential d, verify_auth succeeds exactly
\* for the non-empty token equal to d and login exactly for the password equal
\* to d; a token or password equal to the site's fallback-table entry but
\* different from d is rejected with InvalidCredential.  For a site without a
\* durable credential, both succeed exactly for its fallback-table entry.
C14_CredentialPrecedence ==
    /\ \A s \in SiteIds, t \in Tokens :
         LET r == verify_auth(s, t, site_passwords)
         IN IF s \in DOMAIN site_passwords
            THEN LET d == site_passwords[s].password_hash
                 IN /\ ~Raised(r) <=> (t \notin {None, ""} /\ t = d)
                    /\ (s \in DOMAIN DEMO_PASSWORDS /\ t = DEMO_PASSWORDS[s] /\ t # d) =>
                          InvalidCredential(r)
            ELSE ~Raised(r) <=> (s \in DOMAIN DEMO_PASSWORDS /\ t = DEMO_PASSWORDS[s])
    /\ (request.op = "login" /\ response # NoResponse) =>
         LET s == request.body.site_id
             p == request.body.password
         IN IF s \in DOMAIN site_passwords
            THEN LET d == site_passwords[s].password_hash
                 IN /\ Succeeded(response) <=> p = d
                    /\ p # d => InvalidCredential(response)
            ELSE Succeeded(response) <=>
                    (s \in DOMAIN DEMO_PASSWORDS /\ p = DEMO_PASSWORDS[s])
    /\ (request.op \in WriteOps /\ response # NoResponse) =>
         LET s == request.site_id
             t == request.x_auth_token
         IN IF s \in DOMAIN site_passwords
            THEN Succeeded(response) <=>
                    (t \notin {None, ""} /\ t = site_passwords[s].password_hash)
            ELSE Succeeded(response) <=>
                    (s \in DOMAIN DEMO_PASSWORDS /\ t = DEMO_PASSWORDS[s])

\* a login with the fallback-table password of a site whose durable credential
\* is another one was rejected
C14_Witness ==
    /\ request.op = "login"
    /\ InvalidCredential(response)
    /\ request.body.site_id \in DOMAIN site_passwords
    /\ request.body.site_id \in DOMAIN DEMO_PASSWORDS
    /\ request.body.password = DEMO_PASSWORDS[request.body.site_id]
    /\ site_passwords[request.body.site_id].password_hash = "secret1"

-----------------------------------------------------------------------------
(* C15 *)

\* C15: for a site with neither a durable credential nor a fallback-table
\* entry, verify_auth raises for every token and no login and no write
\* succeeds; every site with a stored content record has a durable credential
\* or an entry in the fallback table.
C15_UnmatchableCredential ==
    /\ \A s \in SiteIds \ (DOMAIN site_passwords \cup DOMAIN DEMO_PASSWORDS) :
         /\ \A t \in Tokens : Raised(verify_auth(s, t, site_passwords))
         /\ (request.op \in WriteOps /\ request.site_id = s /\ response # NoResponse) =>
               Unauthorized(response) \/ InvalidCredential(response)
         /\ (request.op = "login" /\ request.body.site_id = s /\ response # NoResponse) =>
               InvalidCredential(response)
    /\ DOMAIN site_content \subseteq DOMAIN site_passwords \cup DOMAIN DEMO_PASSWORDS

\* a write with a non-empty token to a site that has no credential of either
\* kind was rejected, while the other site has a record
C15_Witness ==
    /\ request.op \in WriteOps
    /\ request.x_auth_token = "demo123"
    /\ InvalidCredential(response)
    /\ request.site_id \notin DOMAIN site_passwords
    /\ request.site_id \notin DOMAIN DEMO_PASSWORDS
    /\ request.site_id \notin DOMAIN site_content
    /\ DOMAIN site_content # {}

-----------------------------------------------------------------------------
(* C16 *)

\* the site ids list_sites returns for a table
Listing(content_table) == {content_table[s].site_id : s \in DOMAIN content_table}

\* C16: no step removes a content record or a credential: every site with a
\* content record (a credential) before a step has one after it, and the set
\* of site ids the listing returns only grows.
C16_NoDeletion ==
    [][/\ DOMAIN site_content \subseteq DOMAIN site_content'
       /\ DOMAIN site_passwords \subseteq DOMAIN site_passwords'
       /\ Listing(site_content) \subseteq Listing(site_content')
       /\ (Handled /\ request.op = "list_sites") =>
             {r.site_id : r \in response'.body} = Listing(site_content)]_vars

\* a write has succeeded while two sites have a record and one a credential
C16_Witness ==
    /\ request.op \in WriteOps
    /\ Succeeded(response)
    /\ Cardinality(DOMAIN site_content) = 2
    /\ DOMAIN site_passwords # {}

-----------------------------------------------------------------------------
(* C17 *)

\* the step in which session k commits a merge
MergeCommitted(k) ==
    /\ sessions[k].request.op \in MergeOps
    /\ sessions[k].pc = "commit"
    /\ sessions'[k].pc = "done"

\* C17: a merge is a read-modify-write without isolation.  Its commit does
\* not look at what other sessions committed since it read: with a row in
\* hand it always reports success, and after a successful commit every field
\* of the stored record is either as it was stored just before the commit or
\* as the committing call had read or set it, so a field another call wrote in
\* between can be put back to the value read before that write.
C17_MergeLastWriteWins ==
    [][\A k \in Sessions :
         MergeCommitted(k) =>
           LET s == sessions[k]
               id == s.request.site_id
               before == load_site(id, site_content)
               after == load_site(id, site_content')
           IN /\ s.db_site # NoRow => Succeeded(sessions'[k].response)
              /\ Succeeded(sessions'[k].response) =>
                   /\ id \in DOMAIN site_content'
                   /\ \A g \in DOMAIN after : after[g] \in {before[g], s.content[g]}
                   /\ id \notin DOMAIN site_content => after = s.content
              /\ ~Succeeded(sessions'[k].response) => site_content' = site_content]_vars

\* the lost update: two merges of different fields of one site, each read
\* the created record before the other wrote, both report "saved", and the
\* stored record has the new value of one field only
C17_Witness ==
    \E k \in Sessions, j \in Sessions :
       LET sk == sessions[k]
           sj == sessions[j]
       IN /\ k # j
          /\ sk.pc = "done" /\ sj.pc = "done"
          /\ sk.request.op \in MergeOps /\ sj.request.op \in MergeOps
          /\ sk.request.site_id = sj.request.site_id
          /\ FieldOf(sk.request.op) # FieldOf(sj.request.op)
          /\ sk.response = Return([status |-> "saved"])
          /\ sj.response = Return([status |-> "saved"])
          /\ sk.content.business_name = JWCafeName
          /\ sj.content.business_name = JWCafeName
          /\ sk.content[FieldOf(sj.request.op)] # sj.content[FieldOf(sj.request.op)]
          /\ sj.content[FieldOf(sk.request.op)] # sk.content[FieldOf(sk.request.op)]
          /\ LET site == load_site(sk.request.site_id, site_content)
             IN /\ site[FieldOf(sj.request.op)] = sj.content[FieldOf(sj.request.op)]
                /\ site[FieldOf(sk.request.op)] # sk.content[FieldOf(sk.request.op)]
                /\ site[FieldOf(sk.request.op)] = sj.content[FieldOf(sk.request.op)]

-----------------------------------------------------------------------------
(* C18 *)

ListFields == {"services", "staff", "menu_items", "promotions"}

\* the prefix of the ids assigned in a list field
PrefixOfField(f) ==
    CASE f = "services" -> "svc"
      [] f = "staff" -> "staff"
      [] f = "menu_items" -> "menu"
      [] f = "promotions" -> "promo"

\* the lists a successful write has replaced, as submitted
Replaced(req) ==
    IF req.op = "update_site"
    THEN [f \in ListFields |-> req.body[f]]
    ELSE (FieldOf(req.op) :> req.body)

\* the positions of the stored elements that have no id
WithoutId(content_table) ==
    UNION {LET site == load_site(s, content_table)
           IN UNION {{<<s, f, i>> : i \in {n \in DOMAIN site[f] : Falsy(site[f][n].id)}} :
                     f \in ListFields} :
           s \in DOMAIN content_table}

\* the positions at which a full-record replace submits an element without id
SubmittedWithoutId(req) ==
    UNION {{<<req.site_id, f, i>> : i \in {n \in DOMAIN req.body[f] :
                                             Falsy(req.body[f][n].id)}} :
           f \in ListFields}

\* C18 as stated: after a successful write that replaces a list, a
\* per-collection update or a full-record replace, every element submitted
\* without an id is stored with the id "<prefix>-<index>", and no stored
\* sub-record lacks an id.
C18_IdsAssignedOnEveryReplace ==
    /\ (request.op \in ListOps \cup {"update_site"} /\ Succeeded(response)) =>
         LET site == load_site(request.site_id, site_content)
             submitted == Replaced(request)
         IN \A f \in DOMAIN submitted :
              \A i \in 1..Len(submitted[f]) :
                 submitted[f][i].id = None =>
                    site[f][i].id = PrefixOfField(f) \o "-" \o ToString(i - 1)
    /\ \A s \in DOMAIN site_content :
         \A f \in ListFields :
            LET l == load_site(s, site_content)[f]
            IN \A i \in 1..Len(l) : l[i].id # None

\* C18 amended: ids are assigned by the per-collection updates only.  After
\* a successful per-collection update every element of the stored list has a
\* non-empty id, "<prefix>-<index>" where it was submitted without an id or
\* with an empty one.  A full-record replace stores every id as submitted, so
\* a stored sub-record lacks an id exactly where a full-record replace
\* submitted it without one and no per-collection update has replaced that
\* list since.
C18_IdsAssignedOnListUpdate ==
    [][/\ (Handled /\ request.op \in ListOps /\ Succeeded(response')) =>
             LET f == FieldOf(request.op)
                 l == load_site(request.site_id, site_content')[f]
             IN /\ Len(l) = Len(request.body)
                /\ \A i \in 1..Len(l) :
                     /\ ~Falsy(l[i].id)
                     /\ Falsy(request.body[i].id) =>
                          l[i].id = PrefixOfField(f) \o "-" \o ToString(i - 1)
       /\ (Handled /\ request.op = "update_site" /\ Succeeded(response')) =>
             LET site == load_site(request.site_id, site_content')
             IN \A f \in ListFields :
                  /\ Len(site[f]) = Len(request.body[f])
                  /\ \A i \in 1..Len(site[f]) : site[f][i].id = request.body[f][i].id
       /\ site_content' # site_content =>
             WithoutId(site_content') \subseteq
                WithoutId(site_content) \cup
                (IF Handled /\ request.op = "update_site"
                 THEN SubmittedWithoutId(request) ELSE {})]_vars

\* services were updated from a list with an absent and an empty id, in a
\* record whose staff a full-record replace had stored without an id
C18_Witness ==
    /\ request.op = "update_services"
    /\ Succeeded(response)
    /\ Len(request.body) = 2
    /\ request.body[1].id = None
    /\ request.body[2].id = ""
    /\ LET site == load_site(request.site_id, site_content)
       IN /\ site.services[1].id = "svc-0"
          /\ site.services[2].id = "svc-1"
          /\ Len(site.staff) = 1
          /\ site.staff[1].id = None

-----------------------------------------------------------------------------
(* C19 *)

\* the step in which session k's create_site commits or fails to
CreateCommitted(k) ==
    /\ sessions[k].request.op = "create_site"
    /\ sessions[k].pc = "commit"
    /\ sessions'[k].pc = "done"

\* C19: a create_site that passed the existence check and reaches its commit
\* when a row for the site has been stored in the meantime fails, not with
\* AlreadyExists, and writes nothing; otherwise it succeeds and the stored
\* business name and credential are both its own.  Two create_site calls for
\* one site that are in flight together never both succeed.
C19_ConcurrentCreateSite ==
    [][/\ \A k \in Sessions :
            CreateCommitted(k) =>
              LET site_data == sessions[k].request.body
                  id == site_data.site_id
                  r == sessions'[k].response
              IN IF id \in DOMAIN site_content \/ id \in DOMAIN site_passwords
                 THEN /\ Raised(r)
                      /\ ~AlreadyExists(r)
                      /\ site_content' = site_content
                      /\ site_passwords' = site_passwords
                 ELSE /\ Succeeded(r)
                      /\ site_content'[id].business_name = site_data.business_name
                      /\ site_passwords'[id].password_hash = site_data.password
       /\ \A k \in Sessions, j \in Sessions :
            (/\ k # j
             /\ sessions'[k].request.op = "create_site"
             /\ sessions'[j].request.op = "create_site"
             /\ sessions'[k].request.body.site_id = sessions'[j].request.body.site_id) =>
               ~(Succeeded(sessions'[k].response) /\ Succeeded(sessions'[j].response))]_vars

\* two create_site calls for one site, with different names and passwords,
\* both passed the existence check; one succeeded, the other failed at its
\* commit, and the stored name and credential are those of the first
C19_Witness ==
    \E k \in Sessions, j \in Sessions :
       LET sk == sessions[k]
           sj == sessions[j]
       IN /\ k # j
          /\ sk.pc = "done" /\ sj.pc = "done"
          /\ sk.request.op = "create_site" /\ sj.request.op = "create_site"
          /\ sk.request.body.site_id = sj.request.body.site_id
          /\ sk.request.body.business_name # sj.request.body.business_name
          /\ sk.request.body.password # sj.request.body.password
          /\ Succeeded(sk.response)
          /\ sj.response = HTTPException(500, "IntegrityError")
          /\ site_content[sk.request.body.site_id].business_name =
                sk.request.body.business_name
          /\ site_passwords[sk.request.body.site_id].password_hash =
                sk.request.body.password

====
